---- MODULE Spec2Model ----
(***************************************************************************)
(* The tools of the cannabis-inventory examples: bulk_pricing_calculator   *)
(* and weight_conversion, as a state machine of tool calls.  The tools     *)
(* compute with JavaScript Numbers, so the model carries IEEE-754 binary64 *)
(* values (sign, 53-bit significand, exponent) and rounds every            *)
(* arithmetic step to nearest-even as the runtime does.  Significands are  *)
(* wider than TLC's integers, so they are kept as sequences of limbs.      *)
(***************************************************************************)
EXTENDS Integers, Sequences, FiniteSets, TLC

(***************************************************************************)
(* Natural numbers of any size: little-endian sequences of limbs in base   *)
(* 2^15, without high zero limbs; <<>> is zero.                            *)
(***************************************************************************)
Base == 2^15
LimbBits == 15 + 0

RECURSIVE BigTrim(_)
BigTrim(a) ==
    IF a = <<>> THEN a
    ELSE IF a[Len(a)] = 0 THEN BigTrim(SubSeq(a, 1, Len(a) - 1)) ELSE a

RECURSIVE BigFromNat(_)
BigFromNat(n) == IF n = 0 THEN <<>> ELSE <<n % Base>> \o BigFromNat(n \div Base)

RECURSIVE BigToNat(_)
BigToNat(a) == IF a = <<>> THEN 0 ELSE Head(a) + Base * BigToNat(Tail(a))

Limb(a, i) == IF i <= Len(a) THEN a[i] ELSE 0

RECURSIVE BigAddFrom(_, _, _, _)
BigAddFrom(a, b, i, c) ==
    IF i > Len(a) /\ i > Len(b)
    THEN (IF c = 0 THEN <<>> ELSE <<c>>)
    ELSE LET s == Limb(a, i) + Limb(b, i) + c
         IN  <<s % Base>> \o BigAddFrom(a, b, i + 1, s \div Base)

BigAdd(a, b) == BigAddFrom(a, b, 1, 0)

RECURSIVE BigSubFrom(_, _, _, _)
BigSubFrom(a, b, i, borrow) ==
    IF i > Len(a) THEN <<>>
    ELSE LET d == Limb(a, i) - Limb(b, i) - borrow
         IN  <<d % Base>> \o BigSubFrom(a, b, i + 1, IF d < 0 THEN 1 ELSE 0)

\* a - b for a >= b
BigSub(a, b) == BigTrim(BigSubFrom(a, b, 1, 0))

RECURSIVE BigCmpFrom(_, _, _)
BigCmpFrom(a, b, i) ==
    IF i = 0 THEN 0
    ELSE IF a[i] # b[i] THEN (IF a[i] < b[i] THEN -1 ELSE 1)
    ELSE BigCmpFrom(a, b, i - 1)

\* -1, 0 or 1 as a < b, a = b, a > b
BigCmp(a, b) ==
    IF Len(a) # Len(b) THEN (IF Len(a) < Len(b) THEN -1 ELSE 1)
    ELSE BigCmpFrom(a, b, Len(a))

RECURSIVE BigMulSmallFrom(_, _, _, _)
BigMulSmallFrom(a, k, i, c) ==
    IF i > Len(a)
    THEN (IF c = 0 THEN <<>> ELSE <<c>>)
    ELSE LET p == a[i] * k + c
         IN  <<p % Base>> \o BigMulSmallFrom(a, k, i + 1, p \div Base)

\* a * k for 0 <= k <= Base
BigMulSmall(a, k) == IF k = 0 THEN <<>> ELSE BigMulSmallFrom(a, k, 1, 0)

RECURSIVE BigShiftLimbs(_, _)
BigShiftLimbs(a, n) ==
    IF a = <<>> \/ n = 0 THEN a ELSE <<0>> \o BigShiftLimbs(a, n - 1)

RECURSIVE BigMulFrom(_, _, _)
BigMulFrom(a, b, i) ==
    IF i > Len(b) THEN <<>>
    ELSE BigAdd(BigMulSmall(a, b[i]), BigShiftLimbs(BigMulFrom(a, b, i + 1), 1))

BigMul(a, b) == BigMulFrom(a, b, 1)

RECURSIVE BigDivSmallFrom(_, _, _, _)
BigDivSmallFrom(a, k, i, r) ==
    IF i > Len(a) THEN <<>>
    ELSE LET j   == Len(a) + 1 - i
             cur == r * Base + a[j]
         IN  BigDivSmallFrom(a, k, i + 1, cur % k) \o <<cur \div k>>

\* floor(a / k) for 1 <= k <= Base
BigDivSmall(a, k) == BigTrim(BigDivSmallFrom(a, k, 1, 0))

\* a * 2^n
BigShl(a, n) ==
    BigShiftLimbs(BigMulSmall(a, 2^(n % LimbBits)), n \div LimbBits)

\* floor(a / 2^n)
BigShr(a, n) ==
    LET w == n \div LimbBits
    IN  IF w >= Len(a) THEN <<>>
        ELSE BigDivSmall(SubSeq(a, w + 1, Len(a)), 2^(n % LimbBits))

RECURSIVE NatBitLen(_)
NatBitLen(n) == IF n = 0 THEN 0 ELSE 1 + NatBitLen(n \div 2)

BigBitLen(a) ==
    IF a = <<>> THEN 0 ELSE LimbBits * (Len(a) - 1) + NatBitLen(a[Len(a)])

BigOdd(a) == a # <<>> /\ a[1] % 2 = 1

BigOne == <<1>>

(***************************************************************************)
(* JavaScript Numbers: IEEE-754 binary64.  A finite value is               *)
(* (-1)^s * m * 2^e with m = 0 or 2^52 <= m < 2^53 (m a limb sequence).    *)
(* Zero is kept unsigned: the tools never tell -0 from 0.  The exponent is *)
(* unbounded here; the quantities of the model stay far inside the range   *)
(* where binary64 neither overflows nor goes subnormal.  NaN is what        *)
(* arithmetic on undefined (a key missing from a table) gives.             *)
(***************************************************************************)
Precision == 53 + 0

FZero == [s |-> 0, m |-> <<>>, e |-> 0]

IsZero(x) == x.m = <<>>

NaN == [nan |-> TRUE]

IsNaN(x) == x = NaN

\* The Number nearest to (-1)^s * M * 2^E, ties to even: M is cut to its
\* leading 53 bits q; the bits cut off, compared with half a unit of q,
\* decide the rounding; a carry out of the 53 bits moves the exponent.
RoundCarry(s, e, q) ==
    IF BigBitLen(q) > Precision
    THEN [s |-> s, m |-> BigShr(q, 1), e |-> e + 1]
    ELSE [s |-> s, m |-> q, e |-> e]

RoundUp(s, e, q, c) ==
    IF c > 0 \/ (c = 0 /\ BigOdd(q))
    THEN RoundCarry(s, e, BigAdd(q, BigOne))
    ELSE [s |-> s, m |-> q, e |-> e]

RoundShift(s, M, e, sh, q) ==
    RoundUp(s, e, q, BigCmp(BigSub(M, BigShl(q, sh)), BigShl(BigOne, sh - 1)))

RoundBits(s, M, E, L) ==
    IF L = 0 THEN FZero
    ELSE IF L <= Precision
    THEN [s |-> s, m |-> BigShl(M, Precision - L), e |-> E - (Precision - L)]
    ELSE RoundShift(s, M, E + (L - Precision), L - Precision,
                    BigShr(M, L - Precision))

RoundToNumber(s, M, E) == RoundBits(s, M, E, BigBitLen(M))

\* An integer n, |n| < 2^31, as a Number (exact).
FromInt(n) ==
    RoundToNumber(IF n < 0 THEN 1 ELSE 0, BigFromNat(IF n < 0 THEN -n ELSE n), 0)

FOne == FromInt(1)

FNeg(x) == IF IsZero(x) THEN x ELSE [x EXCEPT !.s = 1 - x.s]

\* x * y
FMul(x, y) ==
    IF IsNaN(x) \/ IsNaN(y) THEN NaN
    ELSE IF IsZero(x) \/ IsZero(y) THEN FZero
    ELSE RoundToNumber((x.s + y.s) % 2, BigMul(x.m, y.m), x.e + y.e)

\* Long division, DigitBits quotient bits at a time (recursion is kept
\* shallow): <<floor(r * 2^(DigitBits * n) / d), whether a remainder is
\* left>> for r < d and d of at least 16 bits.  Each quotient digit is
\* estimated from the leading bits of the operands (the estimate less one is
\* at most two below the digit) and then corrected against the exact product.
DigitBits == 14 + 0

RECURSIVE DivDigits(_, _, _)

DivJoin(t, n, rest) ==
    <<BigAdd(BigShl(BigFromNat(t), DigitBits * (n - 1)), rest[1]), rest[2]>>

DivEmit(rem0, d, n, t0, k) ==
    DivJoin(t0 + k, n, DivDigits(BigSub(rem0, BigMulSmall(d, k)), d, n - 1))

DivCorrect(rem0, d, n, t0) ==
    DivEmit(rem0, d, n, t0,
            IF BigCmp(rem0, BigMulSmall(d, 2)) >= 0 THEN 2
            ELSE IF BigCmp(rem0, d) >= 0 THEN 1 ELSE 0)

DivTry(R, d, n, est) ==
    DivCorrect(BigSub(R, BigMulSmall(d, IF est = 0 THEN 0 ELSE est - 1)), d, n,
               IF est = 0 THEN 0 ELSE est - 1)

DivEstimate(R, d, n, sd) ==
    DivTry(R, d, n, BigToNat(BigShr(R, sd)) \div BigToNat(BigShr(d, sd)))

DivDigits(r, d, n) ==
    IF n = 0 THEN <<(<<>>), r # <<>>>>
    ELSE DivEstimate(BigShl(r, DigitBits), d, n, BigBitLen(d) - 16)

\* x / y for y # 0: the quotient to 56 fraction bits and a sticky bit, rounded
FDivRound(x, y, ge, qr) ==
    RoundToNumber((x.s + y.s) % 2,
        BigAdd(BigMulSmall(IF ge THEN BigAdd(BigShl(BigOne, 4 * DigitBits), qr[1])
                                 ELSE qr[1], 2),
               IF qr[2] THEN BigOne ELSE <<>>),
        x.e - y.e - (4 * DigitBits + 1))

FDivMag(x, y, ge) ==
    FDivRound(x, y, ge, DivDigits(IF ge THEN BigSub(x.m, y.m) ELSE x.m, y.m, 4))

FDiv(x, y) ==
    IF IsNaN(x) \/ IsNaN(y) THEN NaN
    ELSE IF IsZero(x) THEN FZero
    ELSE FDivMag(x, y, BigCmp(x.m, y.m) >= 0)

\* -1, 0, 1 as |x| < |y|, |x| = |y|, |x| > |y|
MagCmp(x, y) ==
    IF IsZero(x) \/ IsZero(y)
    THEN (IF IsZero(x) /\ IsZero(y) THEN 0 ELSE IF IsZero(x) THEN -1 ELSE 1)
    ELSE IF x.e # y.e THEN (IF x.e < y.e THEN -1 ELSE 1)
    ELSE BigCmp(x.m, y.m)

\* -1, 0, 1 as x < y, x = y, x > y
FCmp(x, y) ==
    IF x.s # y.s THEN (IF x.s = 1 THEN -1 ELSE 1)
    ELSE IF x.s = 0 THEN MagCmp(x, y) ELSE MagCmp(y, x)

\* x >= y; false when either is NaN
FGe(x, y) == ~IsNaN(x) /\ ~IsNaN(y) /\ FCmp(x, y) >= 0

\* x > y, x <= y; false when either is NaN
FGt(x, y) == ~IsNaN(x) /\ ~IsNaN(y) /\ FCmp(x, y) > 0
FLe(x, y) == ~IsNaN(x) /\ ~IsNaN(y) /\ FCmp(x, y) <= 0

\* x + y: the operands on a common exponent, added or subtracted exactly,
\* then rounded
FAddSigned(sx, X, sy, Y, e, c) ==
    RoundToNumber(IF sx = sy \/ c > 0 THEN sx ELSE sy,
                  IF sx = sy THEN BigAdd(X, Y)
                  ELSE IF c > 0 THEN BigSub(X, Y) ELSE BigSub(Y, X),
                  e)

FAddAligned(sx, X, sy, Y, e) == FAddSigned(sx, X, sy, Y, e, BigCmp(X, Y))

FAddAt(x, y, e) ==
    FAddAligned(x.s, BigShl(x.m, x.e - e), y.s, BigShl(y.m, y.e - e), e)

FAdd(x, y) ==
    IF IsNaN(x) \/ IsNaN(y) THEN NaN
    ELSE IF IsZero(x) THEN y
    ELSE IF IsZero(y) THEN x
    ELSE FAddAt(x, y, IF x.e < y.e THEN x.e ELSE y.e)

\* x - y
FSub(x, y) == IF IsNaN(y) THEN NaN ELSE FAdd(x, FNeg(y))

\* The decimal literal n / 10^d (how a JSON or source literal is read):
\* the Number nearest to it.  |n| < 2^31, d <= 9.
Lit(n, d) == FDiv(FromInt(n), FromInt(10^d))

\* Math.floor(x) for |x| < 2^31, as an integer (NaN for NaN)
FFloorFrac(x, q) ==
    IF x.s = 0 THEN BigToNat(q)
    ELSE IF BigShl(q, -x.e) = x.m THEN -BigToNat(q) ELSE -BigToNat(q) - 1

FFloor(x) ==
    IF IsNaN(x) THEN NaN
    ELSE IF IsZero(x) THEN 0
    ELSE IF x.e >= 0 THEN (IF x.s = 1 THEN -1 ELSE 1) * BigToNat(BigShl(x.m, x.e))
    ELSE FFloorFrac(x, BigShr(x.m, -x.e))

\* a mod k for 1 <= k <= Base
RECURSIVE BigModSmallFrom(_, _, _, _)
BigModSmallFrom(a, k, i, r) ==
    IF i = 0 THEN r ELSE BigModSmallFrom(a, k, i - 1, (r * Base + a[i]) % k)

BigModSmall(a, k) == BigModSmallFrom(a, k, Len(a), 0)

\* x % n for an integer 1 <= n <= Base: the remainder of the truncated
\* division, exact, with the sign of x
FModFrac(x, n, hi) ==
    RoundToNumber(x.s,
        BigAdd(BigShl(BigFromNat(BigModSmall(hi, n)), -x.e),
               BigSub(x.m, BigShl(hi, -x.e))),
        x.e)

FModInt(x, n) ==
    IF IsNaN(x) THEN NaN
    ELSE IF IsZero(x) THEN FZero
    ELSE IF x.e >= 0
    THEN RoundToNumber(x.s, BigFromNat(BigModSmall(BigShl(x.m, x.e), n)), 0)
    ELSE FModFrac(x, n, BigShr(x.m, -x.e))

(***************************************************************************)
(* Number.prototype.toFixed(2): the integer n with n / 100 nearest to the  *)
(* exact value of |x|, the larger n on a tie, printed with the sign of x.  *)
(* The string is kept as its parts: sign, integer part, two decimals;      *)
(* NaN prints as "NaN".                                                    *)
(***************************************************************************)
Fixed2(sign, int, frac) == [sign |-> sign, int |-> int, frac |-> frac]

FixedOf(s, n) == Fixed2(IF s = 1 THEN "-" ELSE "", n \div 100, n % 100)

NaNText == [text |-> "NaN"]

toFixed2(x) ==
    IF IsNaN(x) THEN NaNText
    ELSE FixedOf(x.s,
        BigToNat(IF x.e >= 0
                 THEN BigShl(BigMulSmall(x.m, 100), x.e)
                 ELSE BigShr(BigAdd(BigMulSmall(x.m, 100),
                                    BigShl(BigOne, -x.e - 1)), -x.e)))

\* table[key] of an object literal, read as a Number: a missing key gives
\* undefined, which arithmetic turns into NaN
Lookup(table, key) == IF key \in DOMAIN table THEN table[key] ELSE NaN

Percent(n) == [text |-> "%", n |-> n]
NoneText == [text |-> "None", n |-> 0]

(***************************************************************************)
(* bulk_pricing_calculator                                                 *)
(***************************************************************************)
\* parameters: z.object({basePrice: z.number(), quantity: z.number(),
\* unit: z.enum(['g','oz','lb']), tier: z.string().optional()}).  The model's
\* inputs carry Numbers for basePrice and quantity; tier is never read.
bulkPricingParameters(input) == input.unit \in {"g", "oz", "lb"}

conversionFactors ==
    [g  |-> FDiv(FOne, Lit(453592, 3)),
     oz |-> FDiv(FOne, FromInt(16)),
     lb |-> FOne]

bulkPounds(input) == FMul(input.quantity, Lookup(conversionFactors, input.unit))

\* the tiers with the Distro threshold exclusive
bulkDiscountTierExclusive(pounds) ==
    IF FGe(pounds, FromInt(100))
    THEN [discountRate |-> 15, tier |-> "Master 2 (100lbs+)"]
    ELSE IF FGe(pounds, FromInt(50))
    THEN [discountRate |-> 10, tier |-> "Master (50lbs+)"]
    ELSE IF FGe(pounds, FromInt(25)) /\ pounds # FromInt(25)
    THEN [discountRate |-> 5, tier |-> "Distro (25lbs+)"]
    ELSE [discountRate |-> 0, tier |-> "Standard Pricing"]

\* the bulk discount tiers: discountRate and tier
bulkDiscountTier(pounds) ==
    IF FGe(pounds, FromInt(100))
    THEN [discountRate |-> 15, tier |-> "Master 2 (100lbs+)"]
    ELSE IF FGe(pounds, FromInt(50))
    THEN [discountRate |-> 10, tier |-> "Master (50lbs+)"]
    ELSE IF FGe(pounds, FromInt(25))
    THEN [discountRate |-> 5, tier |-> "Distro (25lbs+)"]
    ELSE [discountRate |-> 0, tier |-> "Standard Pricing"]

\* the discount taken off as an amount
bulkDiscountedPriceFlat(basePrice, discountRate) ==
    FSub(basePrice, FromInt(discountRate))

bulkDiscountedPrice(basePrice, discountRate) ==
    FMul(basePrice, FSub(FOne, FDiv(FromInt(discountRate), FromInt(100))))

\* the savings per pound
bulkTotalSavingsPerPound(basePrice, discountedPrice, input) ==
    FMul(FSub(basePrice, discountedPrice), bulkPounds(input))

bulkTotalSavings(basePrice, discountedPrice, input) ==
    FMul(FSub(basePrice, discountedPrice), input.quantity)

\* the total from the unit price as printed
bulkTotalPriceOfPrinted(discountedPrice, input) ==
    LET f == toFixed2(discountedPrice)
        c == f.int * 100 + f.frac
    IN  FMul(Lit(IF f.sign = "-" THEN -c ELSE c, 2), input.quantity)

bulkTotalPrice(discountedPrice, input) == FMul(discountedPrice, input.quantity)

\* the value execute returns, from its locals
bulkPricingResult(input, pounds, t, discountedPrice, totalSavings) ==
    [originalPrice   |-> input.basePrice,
     discountedPrice |-> toFixed2(discountedPrice),
     discountRate    |-> Percent(t.discountRate),
     tier            |-> t.tier,
     totalSavings    |-> toFixed2(totalSavings),
     breakdown       |->
        [pounds     |-> toFixed2(pounds),
         unitPrice  |-> toFixed2(discountedPrice),
         totalPrice |-> toFixed2(bulkTotalPrice(discountedPrice, input))]]

(***************************************************************************)
(* weight_conversion                                                       *)
(***************************************************************************)
\* parameters with toUnit left a free string
weightConversionParametersSourceOnly(input) ==
    input.fromUnit \in {"g", "oz", "lb", "kg"}

\* parameters: z.object({fromWeight: z.number(), fromUnit: z.enum([...]),
\* toUnit: z.enum([...]), bulkPricing: z.boolean().default(false)})
weightConversionParameters(input) ==
    /\ input.fromUnit \in {"g", "oz", "lb", "kg"}
    /\ input.toUnit \in {"g", "oz", "lb", "kg"}

toGrams ==
    [g  |-> FOne,
     oz |-> Lit(283495, 4),
     lb |-> Lit(453592, 3),
     kg |-> FromInt(1000)]

\* the factors the wrong way round
convertInverted(fromWeight, fromUnit, toUnit) ==
    FDiv(FMul(fromWeight, Lookup(toGrams, toUnit)), Lookup(toGrams, fromUnit))

\* the result cut to the two decimals that are printed
convertPrinted(fromWeight, fromUnit, toUnit) ==
    LET f == toFixed2(FDiv(FMul(fromWeight, Lookup(toGrams, fromUnit)),
                           Lookup(toGrams, toUnit)))
    IN  Lit(f.int * 100 + f.frac, 2)

\* grams, then the target unit
convert(fromWeight, fromUnit, toUnit) ==
    FDiv(FMul(fromWeight, Lookup(toGrams, fromUnit)), Lookup(toGrams, toUnit))

\* the tiers whatever the target unit
weightBulkDiscountAnyUnit(result, input) ==
    IF input.bulkPricing
    THEN IF FGe(result, FromInt(100)) THEN 15
         ELSE IF FGe(result, FromInt(50)) THEN 10
         ELSE IF FGe(result, FromInt(25)) THEN 5
         ELSE 0
    ELSE 0

\* the two upper tiers exchanged
weightBulkDiscountSwapped(result, input) ==
    IF input.bulkPricing /\ input.toUnit = "lb"
    THEN IF FGe(result, FromInt(100)) THEN 10
         ELSE IF FGe(result, FromInt(50)) THEN 15
         ELSE IF FGe(result, FromInt(25)) THEN 5
         ELSE 0
    ELSE 0

\* the bulk pricing tiers of the conversion
weightBulkDiscount(result, input) ==
    IF input.bulkPricing /\ input.toUnit = "lb"
    THEN IF FGe(result, FromInt(100)) THEN 15
         ELSE IF FGe(result, FromInt(50)) THEN 10
         ELSE IF FGe(result, FromInt(25)) THEN 5
         ELSE 0
    ELSE 0

weightBreakdown(result) ==
    [eighths    |-> FFloor(FDiv(result, Lit(35, 1))),
     quarters   |-> FFloor(FDiv(result, FromInt(7))),
     halfOunces |-> FFloor(FDiv(result, FromInt(14))),
     ounces     |-> FFloor(FDiv(result, FromInt(28))),
     remaining  |-> toFixed2(FModInt(result, 28))]

\* the value execute returns, from its locals
weightConversionResult(input, result, bulkDiscount) ==
    [original     |-> [weight |-> input.fromWeight, unit |-> input.fromUnit],
     converted    |-> [weight |-> toFixed2(result), unit |-> input.toUnit],
     bulkDiscount |-> IF bulkDiscount > 0 THEN Percent(bulkDiscount) ELSE NoneText,
     breakdown    |-> weightBreakdown(result)]

(***************************************************************************)
(* Optional and nullable parameters: a value that is absent is undefined,  *)
(* a nullable one may be null, a string that is given is Str(s), a number  *)
(* that is given is a Number.                                              *)
(***************************************************************************)
Undefined == [undefined |-> TRUE]
Null == [null |-> TRUE]
Str(s) == [str |-> s]

\* if (v) for an optional number: false for undefined, null, 0 and NaN
TruthyNumber(v) == v # Undefined /\ v # Null /\ ~IsNaN(v) /\ ~IsZero(v)

\* if (v) for an optional string: false for undefined, null and ''
TruthyString(v) == v # Undefined /\ v # Null /\ v.str # ""

\* the number a relational operator makes of its operand: null is 0,
\* undefined is NaN
IsNumber(v) == DOMAIN v = {"s", "m", "e"}
IsString(v) == DOMAIN v = {"str"}

ToNumber(v) == IF v = Null THEN FZero ELSE IF v = Undefined THEN NaN ELSE v

(***************************************************************************)
(* The inventory table (the same rows in menu-generator.ts and in the      *)
(* inventory agent's module).                                              *)
(***************************************************************************)
Product(id, name, tier, weight, price, quantity, thca, strainType, status) ==
    [id |-> id, name |-> name, tier |-> tier, category |-> "Flower",
     weight |-> weight, price |-> FromInt(price), quantity |-> FromInt(quantity),
     thca |-> Lit(thca, 1), strainType |-> strainType, status |-> status]

mockInventory ==
    <<Product("1", "Ice Cream Cake", "TOP SHELF", "3.5g", 45, 88, 285, "Hybrid", "In Stock"),
      Product("2", "Gelato Cake", "TOP SHELF", "3.5g", 42, 62, 268, "Hybrid", "In Stock"),
      Product("3", "Purple Punch", "TOP SHELF", "3.5g", 40, 45, 252, "Indica", "In Stock"),
      Product("4", "White Runtz", "AA INDOOR", "3.5g", 35, 2, 221, "Hybrid", "Low Stock"),
      Product("5", "Mimosa", "AA INDOOR", "3.5g", 32, 0, 235, "Sativa", "Out of Stock"),
      Product("6", "London Jelly", "CLASSIC RESERVE", "3.5g", 28, 15, 218, "Hybrid", "In Stock"),
      Product("7", "THCa Bulk Flower - Premium", "TOP SHELF", "1lb", 850, 12, 285, "Hybrid", "In Stock"),
      Product("8", "THCa Bulk Flower - Mediums", "AA INDOOR", "1lb", 650, 8, 242, "Hybrid", "In Stock")>>

\* a - b of the comparators, as its sign
SignOf(n) == IF n < 0 THEN -1 ELSE IF n > 0 THEN 1 ELSE 0

\* the keys of an object filled in this order: each tier at its first place
TierKeys(products) ==
    SelectSeq([i \in 1..Len(products) |->
                  IF \A j \in 1..(i - 1) : products[j].tier # products[i].tier
                  THEN products[i].tier ELSE ""],
              LAMBDA t : t # "")

(***************************************************************************)
(* generate_customer_menu                                                  *)
(***************************************************************************)
customerMenuParameters(input) ==
    /\ input.customerType \in {"retail", "bulk", "wholesale", "distributor"}
    /\ input.minPrice = Undefined \/ IsNumber(input.minPrice)
    /\ input.maxPrice = Undefined \/ IsNumber(input.maxPrice)
    /\ input.includeOutOfStock \in BOOLEAN
    /\ input.format \in {"text", "html", "markdown"}

customerMenuInStockAlways(input, table) == table

customerMenuInStock(input, table) ==
    IF input.includeOutOfStock THEN table
    ELSE SelectSeq(table, LAMBDA product : FGt(product.quantity, FZero))

customerMenuByType(input, products) ==
    IF input.customerType = "bulk" \/ input.customerType = "wholesale"
    THEN SelectSeq(products, LAMBDA product : FGe(product.price, FromInt(30)))
    ELSE products

customerMenuByMinPrice(input, products) ==
    IF TruthyNumber(input.minPrice)
    THEN SelectSeq(products, LAMBDA product : FGe(product.price, input.minPrice))
    ELSE products

customerMenuByMaxPrice(input, products) ==
    IF TruthyNumber(input.maxPrice)
    THEN SelectSeq(products, LAMBDA product : FLe(product.price, input.maxPrice))
    ELSE products

customerMenuFiltered(input, table) ==
    customerMenuByMaxPrice(input,
        customerMenuByMinPrice(input,
            customerMenuByType(input, customerMenuInStock(input, table))))

\* no filter ran: filteredProducts is the table itself, not a copy
customerMenuSortsTable(input) ==
    /\ input.includeOutOfStock
    /\ ~(input.customerType = "bulk" \/ input.customerType = "wholesale")
    /\ ~TruthyNumber(input.minPrice)
    /\ ~TruthyNumber(input.maxPrice)

customerTierOrder(tier) ==
    IF tier = "TOP SHELF" THEN 1
    ELSE IF tier = "AAA INDOOR" THEN 2
    ELSE IF tier = "AA INDOOR" THEN 3
    ELSE IF tier = "CLASSIC RESERVE" THEN 4
    ELSE 999

customerMenuCompare(a, b) ==
    IF customerTierOrder(a.tier) # customerTierOrder(b.tier)
    THEN SignOf(customerTierOrder(a.tier) - customerTierOrder(b.tier))
    ELSE FCmp(b.price, a.price)

\* Array.prototype.sort: the elements in the order of the comparator,
\* elements that compare equal in the order they had (the sort is stable)
customerMenuRank(s, i) ==
    1 + Cardinality({j \in 1..Len(s) :
                        \/ customerMenuCompare(s[j], s[i]) < 0
                        \/ (customerMenuCompare(s[j], s[i]) = 0 /\ j < i)})

customerMenuSorted(s) ==
    [k \in 1..Len(s) |-> s[CHOOSE i \in 1..Len(s) : customerMenuRank(s, i) = k]]

customerMenuEntry(product) ==
    [name |-> product.name, weight |-> product.weight, price |-> product.price,
     thca |-> product.thca, strainType |-> product.strainType,
     quantity |-> product.quantity]

customerMenuEntries(products, tier) ==
    [i \in 1..Len(SelectSeq(products, LAMBDA product : product.tier = tier)) |->
        customerMenuEntry(SelectSeq(products, LAMBDA product : product.tier = tier)[i])]

customerMenuSections(products) ==
    [k \in 1..Len(TierKeys(products)) |->
        [tier     |-> TierKeys(products)[k],
         products |-> customerMenuEntries(products, TierKeys(products)[k])]]

\* the menu text, kept as what it is made from; the date is the clock's
formattedMenu(input, menuSections) ==
    [format |-> input.format, customerType |-> input.customerType,
     sections |-> menuSections, generated |-> "now"]

customerMenuResult(input, filteredProducts, menuSections) ==
    [customerType  |-> input.customerType,
     totalProducts |-> Len(filteredProducts),
     menuSections  |-> menuSections,
     formattedMenu |-> formattedMenu(input, menuSections),
     generatedAt   |-> "now"]

(***************************************************************************)
(* generate_menu                                                           *)
(***************************************************************************)
menuParameters(input) ==
    /\ input.customerType \in {"retail", "bulk", "wholesale"}
    /\ input.minPrice \in {Undefined, Null} \/ IsNumber(input.minPrice)
    /\ input.tier \in {Undefined, Null} \/ IsString(input.tier)

menuInStock(table) == SelectSeq(table, LAMBDA item : FGt(item.quantity, FZero))

menuByMinPrice(input, products) ==
    IF TruthyNumber(input.minPrice)
    THEN SelectSeq(products, LAMBDA item : FGe(item.price, input.minPrice))
    ELSE products

menuByTier(input, products) ==
    IF TruthyString(input.tier)
    THEN SelectSeq(products, LAMBDA item : item.tier = input.tier.str)
    ELSE products

menuFiltered(input, table) ==
    menuByTier(input, menuByMinPrice(input, menuInStock(table)))

\* tierOrder.indexOf(tier)
menuTierIndex(tier) ==
    IF tier = "TOP SHELF" THEN 0
    ELSE IF tier = "AAA INDOOR" THEN 1
    ELSE IF tier = "AA INDOOR" THEN 2
    ELSE IF tier = "CLASSIC RESERVE" THEN 3
    ELSE -1

menuCompare(a, b) ==
    IF menuTierIndex(a.tier) # menuTierIndex(b.tier)
    THEN SignOf(menuTierIndex(a.tier) - menuTierIndex(b.tier))
    ELSE FCmp(b.price, a.price)

menuRank(s, i) ==
    1 + Cardinality({j \in 1..Len(s) :
                        \/ menuCompare(s[j], s[i]) < 0
                        \/ (menuCompare(s[j], s[i]) = 0 /\ j < i)})

menuSorted(s) ==
    [k \in 1..Len(s) |-> s[CHOOSE i \in 1..Len(s) : menuRank(s, i) = k]]

menuEntry(product) ==
    [name |-> product.name, weight |-> product.weight, price |-> product.price,
     thca |-> product.thca, strainType |-> product.strainType]

menuEntries(products, tier) ==
    [i \in 1..Len(SelectSeq(products, LAMBDA product : product.tier = tier)) |->
        menuEntry(SelectSeq(products, LAMBDA product : product.tier = tier)[i])]

menuSectionsOf(products) ==
    [k \in 1..Len(TierKeys(products)) |->
        [tier     |-> TierKeys(products)[k],
         products |-> menuEntries(products, TierKeys(products)[k])]]

menuResult(input, filteredProducts) ==
    [customerType  |-> input.customerType,
     generatedAt   |-> "now",
     sections      |-> menuSectionsOf(filteredProducts),
     totalProducts |-> Len(filteredProducts)]

(***************************************************************************)
(* analyze_inventory                                                       *)
(***************************************************************************)
analyzeInventoryParameters(input) ==
    /\ input.tier \in {Undefined, Null} \/ IsString(input.tier)
    /\ input.category \in {Undefined, Null} \/ IsString(input.category)
    /\ input.minQuantity \in {Undefined, Null} \/ IsNumber(input.minQuantity)

analyzeByTierOfAnyString(input, items) ==
    IF input.tier # Undefined /\ input.tier # Null
    THEN SelectSeq(items, LAMBDA item : item.tier = input.tier.str)
    ELSE items

analyzeByTier(input, items) ==
    IF TruthyString(input.tier)
    THEN SelectSeq(items, LAMBDA item : item.tier = input.tier.str)
    ELSE items

analyzeByCategory(input, items) ==
    IF TruthyString(input.category)
    THEN SelectSeq(items, LAMBDA item : item.category = input.category.str)
    ELSE items

analyzeByMinQuantity(input, items) ==
    IF input.minQuantity # Undefined
    THEN SelectSeq(items, LAMBDA item : FGe(item.quantity, ToNumber(input.minQuantity)))
    ELSE items

analyzeFiltered(input, table) ==
    analyzeByMinQuantity(input, analyzeByCategory(input, analyzeByTier(input, table)))

analyzeInStock(items) ==
    Len(SelectSeq(items, LAMBDA item : FGt(item.quantity, FZero)))

analyzeLowStock(items) ==
    Len(SelectSeq(items, LAMBDA item : /\ FGt(item.quantity, FZero)
                                        /\ FLe(item.quantity, FromInt(10))))

analyzeOutOfStock(items) ==
    Len(SelectSeq(items, LAMBDA item : item.quantity = FZero))

\* reduce((sum, item) => sum + item.price * item.quantity, 0)
RECURSIVE analyzeTotalValue(_, _)
analyzeTotalValue(items, n) ==
    IF n = 0 THEN FZero
    ELSE FAdd(analyzeTotalValue(items, n - 1),
              FMul(items[n].price, items[n].quantity))

analyzeRecommendations(lowStock, outOfStock, totalValue) ==
    (IF lowStock > 0 THEN <<[text |-> "Restock low-stock items", n |-> lowStock]>>
     ELSE <<>>)
    \o (IF outOfStock > 0
        THEN <<[text |-> "Reorder out-of-stock products", n |-> outOfStock]>>
        ELSE <<>>)
    \o <<[text |-> "Total inventory value", n |-> toFixed2(totalValue)]>>

analyzeResult(filteredInventory, totalValue) ==
    [summary |-> [totalProducts |-> Len(filteredInventory),
                  inStock       |-> analyzeInStock(filteredInventory),
                  lowStock      |-> analyzeLowStock(filteredInventory),
                  outOfStock    |-> analyzeOutOfStock(filteredInventory),
                  totalValue    |-> toFixed2(totalValue)],
     items |-> filteredInventory,
     recommendations |-> analyzeRecommendations(analyzeLowStock(filteredInventory),
                                                analyzeOutOfStock(filteredInventory),
                                                totalValue)]

(***************************************************************************)
(* The tools as a state machine.  The agent runtime takes one tool call at *)
(* a time: it is requested (pc = "called"), checked against the tool's     *)
(* parameters and executed (pc = "returned"), and its result is handed     *)
(* back (pc = "idle").  A conversion's result may be fed back as the       *)
(* quantity of the reverse conversion.                                     *)
(***************************************************************************)
VARIABLES
    pc,      \* "idle", "called" or "returned"
    call,    \* the tool call in progress: [tool, input]
    ret,     \* what the call returned: [status, value] or [status, error]
    frame,   \* the locals of execute at its return statement
    origin,  \* the input of the conversion whose result is being converted back
    menuInventory,  \* mockInventory of menu-generator.ts
    inventory       \* mockInventory of the inventory agent's module

vars == <<pc, call, ret, frame, origin, menuInventory, inventory>>

tables == <<menuInventory, inventory>>

NoCall   == [tool |-> "none"]
NoRet    == [status |-> "none"]
NoFrame  == [kind |-> "none"]
NoOrigin == [kind |-> "none"]

\* Bounds of the model: the quantities on the 25-pound grid
MaxGridSteps == 4

TierGrid == {FromInt(25 * k) : k \in 0..MaxGridSteps}

BasePrices == {FromInt(45), Lit(1001, 2), FZero, FromInt(-45)}

BulkQuantities ==
    TierGrid \cup {FromInt(20), Lit(24999, 3), FromInt(30), FromInt(6),
                   FromInt(400), Lit(113398, 1), FromInt(-50)}

Weights ==
    TierGrid \cup {FromInt(3), FromInt(6), FromInt(77), Lit(375, 3), FromInt(700),
                   Lit(27999, 3),
                   Lit(5809, 2), FromInt(400), Lit(113398, 1)}

\* what a caller may send as a unit: the units of the tools and one more
AnyUnit == {"g", "oz", "lb", "kg", "mg"}

BulkInputs ==
    [basePrice : BasePrices, quantity : BulkQuantities, unit : AnyUnit]

ConvInputs ==
    [fromWeight : Weights, fromUnit : AnyUnit, toUnit : AnyUnit,
     bulkPricing : BOOLEAN]

Init ==
    /\ pc = "idle"
    /\ call = NoCall
    /\ ret = NoRet
    /\ frame = NoFrame
    /\ origin = NoOrigin
    /\ menuInventory = mockInventory
    /\ inventory = mockInventory

\* the inputs of the menu and inventory tools
CustomerMenuInputs ==
    [customerType      : {"retail", "bulk", "distributor"},
     minPrice          : {Undefined, FZero, FromInt(30), FromInt(40)},
     maxPrice          : {Undefined, FZero, FromInt(35), FromInt(45)},
     includeOutOfStock : BOOLEAN,
     format            : {"text", "html"}]

MenuInputs ==
    [customerType : {"retail", "bulk", "distributor"},
     minPrice     : {Undefined, Null, FZero, FromInt(30)},
     tier         : {Undefined, Null, Str(""), Str("TOP SHELF"), Str("AA INDOOR")}]

AnalyzeInputs ==
    [tier        : {Undefined, Null, Str(""), Str("TOP SHELF"), Str("OUTDOOR")},
     category    : {Undefined, Null, Str(""), Str("Flower"), Str("Edible")},
     minQuantity : {Undefined, Null, FZero, FromInt(10), FromInt(100)}]

InvokeBulk(input) ==
    /\ pc = "idle"
    /\ pc' = "called"
    /\ call' = [tool |-> "bulk_pricing_calculator", input |-> input]
    /\ UNCHANGED <<ret, frame, origin, tables>>

InvokeConvert(input) ==
    /\ pc = "idle"
    /\ pc' = "called"
    /\ call' = [tool |-> "weight_conversion", input |-> input]
    /\ UNCHANGED <<ret, frame, origin, tables>>

ParametersOk ==
    IF call.tool = "bulk_pricing_calculator"
    THEN bulkPricingParameters(call.input)
    ELSE IF call.tool = "weight_conversion"
    THEN weightConversionParameters(call.input)
    ELSE IF call.tool = "generate_customer_menu"
    THEN customerMenuParameters(call.input)
    ELSE IF call.tool = "generate_menu"
    THEN menuParameters(call.input)
    ELSE analyzeInventoryParameters(call.input)

\* The input fails the tool's parameters: the call fails before execute runs.
Reject ==
    /\ pc = "called"
    /\ ~ParametersOk
    /\ pc' = "returned"
    /\ ret' = [status |-> "error",
               error  |-> IF call.tool \in {"bulk_pricing_calculator", "weight_conversion"}
                          THEN "InvalidUnit" ELSE "InvalidInput"]
    /\ frame' = NoFrame
    /\ UNCHANGED <<call, origin, tables>>

ExecuteBulk ==
    /\ pc = "called"
    /\ call.tool = "bulk_pricing_calculator"
    /\ bulkPricingParameters(call.input)
    /\ \E pounds \in {bulkPounds(call.input)} :
       \E t \in {bulkDiscountTier(pounds)} :
       \E discountedPrice \in
              {bulkDiscountedPrice(call.input.basePrice, t.discountRate)} :
       \E totalSavings \in
              {bulkTotalSavings(call.input.basePrice, discountedPrice, call.input)} :
          /\ frame' = [kind |-> "bulk", pounds |-> pounds,
                       discountRate |-> t.discountRate,
                       discountedPrice |-> discountedPrice,
                       totalSavings |-> totalSavings]
          /\ ret' = [status |-> "ok",
                     value  |-> bulkPricingResult(call.input, pounds, t,
                                                  discountedPrice, totalSavings)]
    /\ pc' = "returned"
    /\ UNCHANGED <<call, origin, tables>>

ExecuteConvert ==
    /\ pc = "called"
    /\ call.tool = "weight_conversion"
    /\ weightConversionParameters(call.input)
    /\ \E result \in {convert(call.input.fromWeight, call.input.fromUnit,
                               call.input.toUnit)} :
       \E bulkDiscount \in {weightBulkDiscount(result, call.input)} :
          /\ frame' = [kind |-> "conv", result |-> result,
                       bulkDiscount |-> bulkDiscount]
          /\ ret' = [status |-> "ok",
                     value  |-> weightConversionResult(call.input, result,
                                                       bulkDiscount)]
    /\ pc' = "returned"
    /\ UNCHANGED <<call, origin, tables>>

InvokeCustomerMenu(input) ==
    /\ pc = "idle"
    /\ pc' = "called"
    /\ call' = [tool |-> "generate_customer_menu", input |-> input]
    /\ UNCHANGED <<ret, frame, origin, tables>>

InvokeMenu(input) ==
    /\ pc = "idle"
    /\ pc' = "called"
    /\ call' = [tool |-> "generate_menu", input |-> input]
    /\ UNCHANGED <<ret, frame, origin, tables>>

InvokeAnalyze(input) ==
    /\ pc = "idle"
    /\ pc' = "called"
    /\ call' = [tool |-> "analyze_inventory", input |-> input]
    /\ UNCHANGED <<ret, frame, origin, tables>>

\* The sort orders filteredProducts in place: when no filter ran, that is
\* the table.
ExecuteCustomerMenu ==
    /\ pc = "called"
    /\ call.tool = "generate_customer_menu"
    /\ customerMenuParameters(call.input)
    /\ \E filteredProducts \in
              {customerMenuSorted(customerMenuFiltered(call.input, menuInventory))} :
       \E menuSections \in {customerMenuSections(filteredProducts)} :
          /\ menuInventory' = IF customerMenuSortsTable(call.input)
                              THEN filteredProducts ELSE menuInventory
          /\ frame' = [kind |-> "menu", filteredProducts |-> filteredProducts]
          /\ ret' = [status |-> "ok",
                     value  |-> customerMenuResult(call.input, filteredProducts,
                                                   menuSections)]
    /\ pc' = "returned"
    /\ UNCHANGED <<call, origin, inventory>>

ExecuteMenu ==
    /\ pc = "called"
    /\ call.tool = "generate_menu"
    /\ menuParameters(call.input)
    /\ \E filteredProducts \in
              {menuSorted(menuFiltered(call.input, inventory))} :
          /\ frame' = [kind |-> "menu", filteredProducts |-> filteredProducts]
          /\ ret' = [status |-> "ok",
                     value  |-> menuResult(call.input, filteredProducts)]
    /\ pc' = "returned"
    /\ UNCHANGED <<call, origin, tables>>

ExecuteAnalyze ==
    /\ pc = "called"
    /\ call.tool = "analyze_inventory"
    /\ analyzeInventoryParameters(call.input)
    /\ \E filteredInventory \in {analyzeFiltered(call.input, inventory)} :
       \E totalValue \in
              {analyzeTotalValue(filteredInventory, Len(filteredInventory))} :
          /\ frame' = [kind |-> "analyze", filteredInventory |-> filteredInventory,
                       totalValue |-> totalValue]
          /\ ret' = [status |-> "ok",
                     value  |-> analyzeResult(filteredInventory, totalValue)]
    /\ pc' = "returned"
    /\ UNCHANGED <<call, origin, tables>>

\* The caller converts the result back to the unit it came from.
ConvertBack ==
    /\ pc = "returned"
    /\ call.tool = "weight_conversion"
    /\ ret.status = "ok"
    /\ origin = NoOrigin
    /\ pc' = "called"
    /\ origin' = [kind |-> "conv", input |-> call.input]
    /\ call' = [tool  |-> "weight_conversion",
                input |-> [fromWeight  |-> frame.result,
                           fromUnit    |-> call.input.toUnit,
                           toUnit      |-> call.input.fromUnit,
                           bulkPricing |-> FALSE]]
    /\ UNCHANGED <<ret, frame, tables>>

Return ==
    /\ pc = "returned"
    /\ pc' = "idle"
    /\ call' = NoCall
    /\ ret' = NoRet
    /\ frame' = NoFrame
    /\ origin' = NoOrigin
    /\ UNCHANGED tables

Next ==
    \/ \E input \in BulkInputs : InvokeBulk(input)
    \/ \E input \in ConvInputs : InvokeConvert(input)
    \/ Reject
    \/ ExecuteBulk
    \/ ExecuteConvert
    \/ \E input \in CustomerMenuInputs : InvokeCustomerMenu(input)
    \/ \E input \in MenuInputs : InvokeMenu(input)
    \/ \E input \in AnalyzeInputs : InvokeAnalyze(input)
    \/ ExecuteCustomerMenu
    \/ ExecuteMenu
    \/ ExecuteAnalyze
    \/ ConvertBack
    \/ Return

Spec == Init /\ [][Next]_vars

(***************************************************************************)
(* The menu tools over other tables.  The table is stand-in data (in a     *)
(* real implementation it comes from the shop's API): the filters and the  *)
(* comparators are run on the shipped table and on the tables that differ  *)
(* from it in the tier of one row, a tier outside the hierarchy.           *)
(***************************************************************************)
OtherTier == "OUTDOOR"

Retiered(i) == [mockInventory EXCEPT ![i].tier = OtherTier]

Tables == {mockInventory} \cup {Retiered(i) : i \in 1..Len(mockInventory)}

TableInit ==
    /\ pc = "idle"
    /\ call = NoCall
    /\ ret = NoRet
    /\ frame = NoFrame
    /\ origin = NoOrigin
    /\ \E table \in Tables :
          /\ menuInventory = table
          /\ inventory = table

TableNext ==
    \/ \E input \in CustomerMenuInputs : InvokeCustomerMenu(input)
    \/ \E input \in MenuInputs : InvokeMenu(input)
    \/ Reject
    \/ ExecuteCustomerMenu
    \/ ExecuteMenu
    \/ Return

TableSpec == TableInit /\ [][TableNext]_vars

(***************************************************************************)
(* Exact arithmetic for stating the properties: a Number is the rational   *)
(* (-1)^s * m * 2^e, and the statements below compare such values without  *)
(* rounding.                                                               *)
(***************************************************************************)
Billion == 10^9

\* |x| * k in units of 2^e0, for e0 <= x.e
Mag(x, k, e0) == BigShl(BigMul(x.m, BigFromNat(k)), x.e - e0)

BigDist(a, b) == IF BigCmp(a, b) >= 0 THEN BigSub(a, b) ELSE BigSub(b, a)

SameSign(x, y) == IsZero(x) \/ IsZero(y) \/ x.s = y.s

\* -1, 0, 1 as x < y, x = y, x > y, on the exact values
ExactCmp(x, y) ==
    LET e0 == IF x.e < y.e THEN x.e ELSE y.e
        c  == BigCmp(Mag(x, 1, e0), Mag(y, 1, e0))
    IN  IF x.s # y.s THEN (IF x.s = 1 THEN -1 ELSE 1)
        ELSE IF x.s = 0 THEN c ELSE -c

\* x >= n for a natural number n
Meets(x, n) ==
    x.s = 0 /\ (IF x.e >= 0 THEN BigCmp(BigShl(x.m, x.e), BigFromNat(n)) >= 0
                ELSE BigCmp(x.m, BigShl(BigFromNat(n), -x.e)) >= 0)

\* x * k = y * n within a relative tolerance of 1e-9
CloseTo(x, k, y, n) ==
    LET e0 == IF x.e < y.e THEN x.e ELSE y.e
        A  == Mag(x, k, e0)
        B  == Mag(y, n, e0)
    IN  /\ ~IsNaN(x)
        /\ SameSign(x, y)
        /\ BigCmp(BigMul(BigDist(A, B), BigFromNat(Billion)), B) <= 0

Cents(f) == f.int * 100 + f.frac

\* the amount printed as f is x * y * k / 100 to the nearest cent (with the
\* 1e-9 relative tolerance on top of the half cent)
PriceClose(f, x, y, k) ==
    LET E  == x.e + y.e
        e0 == IF E < 0 THEN E ELSE 0
        W  == BigShl(BigMulSmall(BigMulSmall(BigMul(x.m, y.m), k), 100), E - e0)
        C  == BigShl(BigMulSmall(BigFromNat(Cents(f)), 100), -e0)
        H  == BigShl(BigMul(BigFromNat(50), BigFromNat(Billion)), -e0)
    IN  /\ f # NaNText
        /\ Cents(f) = 0 \/ ((f.sign = "-") <=> ((x.s + y.s) % 2 = 1))
        /\ BigCmp(BigMul(BigDist(C, W), BigFromNat(Billion)), BigAdd(H, W)) <= 0

BulkReturned ==
    pc = "returned" /\ call.tool = "bulk_pricing_calculator" /\ ret.status = "ok"

ConvReturned ==
    pc = "returned" /\ call.tool = "weight_conversion" /\ ret.status = "ok"

(***************************************************************************)
(* C1                                                                      *)
(***************************************************************************)
TierRows ==
    <<[threshold |-> 100, discount |-> 15, label |-> "Master 2 (100lbs+)"],
      [threshold |-> 50,  discount |-> 10, label |-> "Master (50lbs+)"],
      [threshold |-> 25,  discount |-> 5,  label |-> "Distro (25lbs+)"]>>

StandardRow == [threshold |-> 0, discount |-> 0, label |-> "Standard Pricing"]

\* the first row, in descending threshold order, whose threshold x meets
FirstRowMet(x) ==
    IF \E i \in 1..Len(TierRows) : Meets(x, TierRows[i].threshold)
    THEN TierRows[CHOOSE i \in 1..Len(TierRows) :
                     /\ Meets(x, TierRows[i].threshold)
                     /\ \A j \in 1..(i - 1) : ~Meets(x, TierRows[j].threshold)]
    ELSE StandardRow

PoundCase(n, row) ==
    (call.input.unit = "lb" /\ call.input.quantity = n)
        => /\ ret.value.tier = row.label
           /\ ret.value.discountRate = Percent(row.discount)

\* C1: every quote of bulk_pricing_calculator carries the discount and the
\* label of the first row, in descending threshold order, whose threshold the
\* pound-equivalent meets, else 0% 'Standard Pricing'; exactly 25, 50 and 100
\* pounds fall in the higher tier; 24.999 and 20 pounds are Standard with the
\* unit price left at the base price.
TierIsFirstRowMet ==
    BulkReturned =>
        /\ ret.value.tier = FirstRowMet(frame.pounds).label
        /\ ret.value.discountRate = Percent(FirstRowMet(frame.pounds).discount)
        /\ frame.discountRate = FirstRowMet(frame.pounds).discount
        /\ call.input.unit = "lb" => frame.pounds = call.input.quantity
        /\ PoundCase(FromInt(25), TierRows[3])
        /\ PoundCase(FromInt(50), TierRows[2])
        /\ PoundCase(FromInt(100), TierRows[1])
        /\ PoundCase(FromInt(20), StandardRow)
        /\ PoundCase(Lit(24999, 3), StandardRow)
        /\ (call.input.unit = "lb" /\ call.input.quantity \in {FromInt(20), Lit(24999, 3)})
              => /\ frame.discountedPrice = call.input.basePrice
                 /\ ret.value.breakdown.unitPrice = toFixed2(call.input.basePrice)

TierBoundaryQuoted ==
    /\ BulkReturned
    /\ call.input.unit = "lb"
    /\ call.input.quantity = FromInt(25)
    /\ ret.value.tier = "Distro (25lbs+)"

(***************************************************************************)
(* C2                                                                      *)
(***************************************************************************)
Positive(x) == x.s = 0 /\ ~IsZero(x)

\* C2 (as claimed): a call of bulk_pricing_calculator with basePrice <= 0 or
\* quantity <= 0 fails with InvalidInput and returns no quote.
NonPositiveRejected ==
    (/\ pc = "returned"
     /\ call.tool = "bulk_pricing_calculator"
     /\ ~Positive(call.input.basePrice) \/ ~Positive(call.input.quantity))
        => /\ ret.status = "error"
           /\ ret.error = "InvalidInput"
           /\ frame = NoFrame

(***************************************************************************)
(* C3                                                                      *)
(***************************************************************************)
\* C3: the unit price printed is basePrice * (1 - discount/100), the total
\* price that times the original quantity, the savings basePrice *
\* discount/100 times the original quantity, each to the nearest cent of the
\* unrounded product; the unit price kept inside is not rounded.
PricesFromOriginalQuantity ==
    BulkReturned =>
        /\ CloseTo(frame.discountedPrice, 100,
                   call.input.basePrice, 100 - frame.discountRate)
        /\ PriceClose(ret.value.discountedPrice, call.input.basePrice, FOne,
                      100 - frame.discountRate)
        /\ PriceClose(ret.value.breakdown.unitPrice, call.input.basePrice, FOne,
                      100 - frame.discountRate)
        /\ PriceClose(ret.value.breakdown.totalPrice, call.input.basePrice,
                      call.input.quantity, 100 - frame.discountRate)
        /\ PriceClose(ret.value.totalSavings, call.input.basePrice,
                      call.input.quantity, frame.discountRate)

OuncesQuoted ==
    /\ BulkReturned
    /\ call.input.unit = "oz"
    /\ call.input.basePrice = Lit(1001, 2)
    /\ call.input.quantity = FromInt(400)
    /\ frame.discountRate = 5

(***************************************************************************)
(* C4                                                                      *)
(***************************************************************************)
\* C4 (as claimed): the pound-equivalent of a quote equals the conversion of
\* (quantity, unit) to pounds, and picks the tier that conversion would pick.
PoundsEqualConversion ==
    BulkReturned =>
        /\ frame.pounds = convert(call.input.quantity, call.input.unit, "lb")
        /\ frame.discountRate =
              weightBulkDiscount(convert(call.input.quantity, call.input.unit, "lb"),
                                 [bulkPricing |-> TRUE, toUnit |-> "lb"])

(***************************************************************************)
(* C5                                                                      *)
(***************************************************************************)
\* C5: basePrice 45.00, quantity 50, unit pound is quoted as 50.00 pounds,
\* 'Master (50lbs+)', 10%, unit price 40.50, total price 2025.00, total
\* savings 225.00.
FiftyPoundScenario ==
    (/\ BulkReturned
     /\ call.input = [basePrice |-> FromInt(45), quantity |-> FromInt(50), unit |-> "lb"])
        => ret.value =
              [originalPrice   |-> FromInt(45),
               discountedPrice |-> Fixed2("", 40, 50),
               discountRate    |-> Percent(10),
               tier            |-> "Master (50lbs+)",
               totalSavings    |-> Fixed2("", 225, 0),
               breakdown       |-> [pounds     |-> Fixed2("", 50, 0),
                                    unitPrice  |-> Fixed2("", 40, 50),
                                    totalPrice |-> Fixed2("", 2025, 0)]]

FiftyPoundsQuoted ==
    /\ BulkReturned
    /\ call.input = [basePrice |-> FromInt(45), quantity |-> FromInt(50), unit |-> "lb"]
    /\ ret.value.breakdown.totalPrice = Fixed2("", 2025, 0)

(***************************************************************************)
(* C6                                                                      *)
(***************************************************************************)
\* the pound values each returned discount is compared with
Probes == TierGrid \cup {FromInt(20), Lit(24999, 3), FromInt(30), Lit(375, 3)}

AsPounds == [bulkPricing |-> TRUE, toUnit |-> "lb"]

\* C6: the discount does not decrease with the pounds: the discount of a
\* quote, and the bulk discount of a conversion to pounds, is at most that of
\* every larger pound value and at least that of every smaller one.
DiscountMonotone ==
    /\ BulkReturned =>
          \A p \in Probes :
             /\ ExactCmp(frame.pounds, p) < 0
                   => frame.discountRate <= bulkDiscountTier(p).discountRate
             /\ ExactCmp(p, frame.pounds) < 0
                   => bulkDiscountTier(p).discountRate <= frame.discountRate
    /\ (ConvReturned /\ call.input.bulkPricing /\ call.input.toUnit = "lb") =>
          \A p \in Probes :
             /\ ExactCmp(frame.result, p) < 0
                   => frame.bulkDiscount <= weightBulkDiscount(p, AsPounds)
             /\ ExactCmp(p, frame.result) < 0
                   => weightBulkDiscount(p, AsPounds) <= frame.bulkDiscount

MasterDiscountConverted ==
    /\ ConvReturned
    /\ call.input.bulkPricing
    /\ call.input.toUnit = "lb"
    /\ frame.bulkDiscount = 10
    /\ ret.value.bulkDiscount = Percent(10)

(***************************************************************************)
(* C7                                                                      *)
(***************************************************************************)
\* grams per unit, in ten-thousandths of a gram
GramsPerUnit == [g |-> 10000, oz |-> 283495, lb |-> 4535920, kg |-> 10000000]

\* C7: a conversion between units of the enumeration does not fail (not for
\* 0 either) and returns quantity * factor[fromUnit] / factor[toUnit] for the
\* factors gram 1, ounce 28.3495, pound 453.592, kilogram 1000 (to the
\* relative tolerance of 1e-9); 25 pounds are 11339.80 grams.
ConvertByFactors ==
    (/\ pc = "returned"
     /\ call.tool = "weight_conversion"
     /\ call.input.fromUnit \in DOMAIN GramsPerUnit
     /\ call.input.toUnit \in DOMAIN GramsPerUnit)
        => /\ ret.status = "ok"
           /\ CloseTo(frame.result, GramsPerUnit[call.input.toUnit],
                      call.input.fromWeight, GramsPerUnit[call.input.fromUnit])
           /\ IsZero(call.input.fromWeight) => IsZero(frame.result)
           /\ (/\ call.input.fromWeight = FromInt(25)
               /\ call.input.fromUnit = "lb"
               /\ call.input.toUnit = "g")
                 => ret.value.converted = [weight |-> Fixed2("", 11339, 80), unit |-> "g"]

PoundsToGramsConverted ==
    /\ ConvReturned
    /\ call.input.fromWeight = FromInt(25)
    /\ call.input.fromUnit = "lb"
    /\ call.input.toUnit = "g"
    /\ ret.value.converted.weight = Fixed2("", 11339, 80)

(***************************************************************************)
(* C8                                                                      *)
(***************************************************************************)
\* C8: converting a result back to the unit it came from recovers the
\* quantity within a relative tolerance of 1e-9.
RoundTripRecovers ==
    (ConvReturned /\ origin # NoOrigin)
        => CloseTo(frame.result, 1, origin.input.fromWeight, 1)

RoundTripInexact ==
    /\ ConvReturned
    /\ origin # NoOrigin
    /\ origin.input.fromUnit # origin.input.toUnit
    /\ frame.result # origin.input.fromWeight

(***************************************************************************)
(* C9                                                                      *)
(***************************************************************************)
\* C9 (as claimed): a conversion to the same unit returns the quantity
\* exactly.
SameUnitIsIdentity ==
    (ConvReturned /\ call.input.fromUnit = call.input.toUnit)
        => frame.result = call.input.fromWeight

(***************************************************************************)
(* C10                                                                     *)
(***************************************************************************)
\* C10: a conversion whose fromUnit or toUnit is outside gram, ounce, pound,
\* kilogram fails with InvalidUnit, with nothing computed and no numeric
\* result returned.
UnknownUnitRejected ==
    (/\ pc = "returned"
     /\ call.tool = "weight_conversion"
     /\ \/ call.input.fromUnit \notin DOMAIN GramsPerUnit
        \/ call.input.toUnit \notin DOMAIN GramsPerUnit)
        => /\ ret = [status |-> "error", error |-> "InvalidUnit"]
           /\ frame = NoFrame

UnknownTargetRejected ==
    /\ pc = "returned"
    /\ call.tool = "weight_conversion"
    /\ call.input.fromUnit = "oz"
    /\ call.input.toUnit = "mg"
    /\ ret.status = "error"

(***************************************************************************)
(* C11                                                                     *)
(***************************************************************************)
\* the quantity of the call in grams
GramsOfCall == FMul(call.input.fromWeight, Lookup(toGrams, call.input.fromUnit))

\* C11 (as claimed): the breakdown of a conversion counts the sub-units of
\* the quantity in grams, each floor taken on that same gram quantity,
\* whatever the units of the conversion; 700 grams are 25 ounces, 50 half
\* ounces, 100 quarters, 200 eighths, remainder 0.00.
BreakdownOfGrams ==
    ConvReturned =>
        /\ ret.value.breakdown.eighths = FFloor(FDiv(GramsOfCall, Lit(35, 1)))
        /\ ret.value.breakdown.quarters = FFloor(FDiv(GramsOfCall, FromInt(7)))
        /\ ret.value.breakdown.halfOunces = FFloor(FDiv(GramsOfCall, FromInt(14)))
        /\ ret.value.breakdown.ounces = FFloor(FDiv(GramsOfCall, FromInt(28)))
        /\ (call.input.fromWeight = FromInt(700) /\ call.input.fromUnit = "g")
              => ret.value.breakdown =
                    [eighths |-> 200, quarters |-> 100, halfOunces |-> 50,
                     ounces |-> 25, remaining |-> Fixed2("", 0, 0)]

(***************************************************************************)
(* C12                                                                     *)
(***************************************************************************)
\* C12 (as claimed): for a quantity >= 0 the four counts are >= 0 and the
\* remainder reported is in [0, 28), never 28.00; quantity 0 gives zero
\* counts and zero remainder.
RemainderBelowOunce ==
    ConvReturned =>
        /\ ret.value.breakdown.eighths >= 0
        /\ ret.value.breakdown.quarters >= 0
        /\ ret.value.breakdown.halfOunces >= 0
        /\ ret.value.breakdown.ounces >= 0
        /\ Cents(ret.value.breakdown.remaining) < 2800
        /\ ret.value.breakdown.remaining.sign = ""
        /\ IsZero(call.input.fromWeight)
              => ret.value.breakdown =
                    [eighths |-> 0, quarters |-> 0, halfOunces |-> 0,
                     ounces |-> 0, remaining |-> Fixed2("", 0, 0)]

(***************************************************************************)
(* C18                                                                     *)
(***************************************************************************)
\* C18: a conversion reports 15%, 10% or 5% when bulkPricing is set, the
\* target unit is lb and the converted value meets 100, 50 or 25; in every
\* other case it reports 'None', also for 25 pounds or more converted to
\* another unit.
BulkDiscountOnlyForPounds ==
    ConvReturned =>
        /\ ret.value.bulkDiscount =
              IF /\ call.input.bulkPricing
                 /\ call.input.toUnit = "lb"
                 /\ Meets(frame.result, 25)
              THEN Percent(FirstRowMet(frame.result).discount)
              ELSE NoneText
        /\ (call.input.fromUnit = "lb" /\ call.input.toUnit # "lb")
              => ret.value.bulkDiscount = NoneText

HundredPoundsInGrams ==
    /\ ConvReturned
    /\ call.input.bulkPricing
    /\ call.input.fromWeight = FromInt(100)
    /\ call.input.fromUnit = "lb"
    /\ call.input.toUnit = "g"
    /\ ret.value.bulkDiscount = NoneText

(***************************************************************************)
(* C19                                                                     *)
(***************************************************************************)
\* |x + y| in units of 2^e0 for x, y >= 0
SumMag(x, y, e0) == BigAdd(Mag(x, 1, e0), Mag(y, 1, e0))

\* x + y = a * b within a relative tolerance of 1e-9, for x, y, a, b >= 0
SumIsProduct(x, y, a, b) ==
    LET e0 == IF x.e < y.e
              THEN (IF x.e < a.e + b.e THEN x.e ELSE a.e + b.e)
              ELSE (IF y.e < a.e + b.e THEN y.e ELSE a.e + b.e)
        P  == BigShl(BigMul(a.m, b.m), a.e + b.e - e0)
    IN  BigCmp(BigMul(BigDist(SumMag(x, y, e0), P), BigFromNat(Billion)), P) <= 0

\* C19: for positive basePrice and quantity the total price and the total
\* savings, before rounding, add up to basePrice * quantity; the savings are
\* not negative, and zero exactly in the Standard tier.
SavingsComplementTotal ==
    (BulkReturned /\ Positive(call.input.basePrice) /\ Positive(call.input.quantity))
        => /\ SumIsProduct(bulkTotalPrice(frame.discountedPrice, call.input),
                           frame.totalSavings,
                           call.input.basePrice, call.input.quantity)
           /\ frame.totalSavings.s = 0
           /\ IsZero(frame.totalSavings) <=> (ret.value.tier = "Standard Pricing")
           /\ (Cents(ret.value.totalSavings) = 0) <=> (ret.value.tier = "Standard Pricing")

SavingsQuoted ==
    /\ BulkReturned
    /\ call.input.basePrice = Lit(1001, 2)
    /\ call.input.unit = "oz"
    /\ call.input.quantity = FromInt(400)
    /\ ~IsZero(frame.totalSavings)
    /\ ret.value.tier = "Distro (25lbs+)"

(***************************************************************************)
(* C13                                                                     *)
(***************************************************************************)
CustomerMenuReturned ==
    pc = "returned" /\ call.tool = "generate_customer_menu" /\ ret.status = "ok"

MenuReturned ==
    pc = "returned" /\ call.tool = "generate_menu" /\ ret.status = "ok"

AnalyzeReturned ==
    pc = "returned" /\ call.tool = "analyze_inventory" /\ ret.status = "ok"

\* C13 (as claimed): after any sequence of tool calls the inventory tables
\* hold the items they held at the start, in the same order.
TablesAsAtStart ==
    /\ menuInventory = mockInventory
    /\ inventory = mockInventory

(***************************************************************************)
(* C14                                                                     *)
(***************************************************************************)
\* the rows of a table and the products listed in the sections of a menu
Rows(table) == {table[i] : i \in 1..Len(table)}

Entries(sections) ==
    UNION {Rows(sections[k].products) : k \in 1..Len(sections)}

\* the menu that was returned, of either tool
ReturnedSections ==
    IF call.tool = "generate_menu" THEN ret.value.sections
    ELSE ret.value.menuSections

\* generate_menu's entries carry no quantity: it is read from the table
QuantityOf(entry) ==
    IF call.tool = "generate_menu"
    THEN (CHOOSE item \in Rows(inventory) : item.name = entry.name).quantity
    ELSE entry.quantity

BulkMenusFromThirty ==
    ((MenuReturned \/ CustomerMenuReturned) /\ call.input.customerType = "bulk")
        => \A entry \in Entries(ReturnedSections) : FGe(entry.price, FromInt(30))

(***************************************************************************)
(* C16                                                                     *)
(***************************************************************************)
\* the place of a tier in the hierarchy, a tier outside it after all
TierPlace(tier) ==
    IF tier = "TOP SHELF" THEN 1
    ELSE IF tier = "AAA INDOOR" THEN 2
    ELSE IF tier = "AA INDOOR" THEN 3
    ELSE IF tier = "CLASSIC RESERVE" THEN 4
    ELSE 5

PricesDescend(products) ==
    \A i \in 1..(Len(products) - 1) : FGe(products[i].price, products[i + 1].price)

RECURSIVE ListedIn(_, _)
ListedIn(sections, n) ==
    IF n = 0 THEN 0
    ELSE ListedIn(sections, n - 1) + Len(sections[n].products)

\* C17 (as claimed): a menu of generate_customer_menu given a numeric
\* minPrice lists only products with price >= minPrice, given a numeric
\* maxPrice only products with price <= maxPrice, for every value of the
\* bounds, 0 too; totalProducts is the number of products listed.
PriceBoundsKept ==
    CustomerMenuReturned
        => /\ IsNumber(call.input.minPrice)
                 => \A entry \in Entries(ret.value.menuSections) :
                       FGe(entry.price, call.input.minPrice)
           /\ IsNumber(call.input.maxPrice)
                 => \A entry \in Entries(ret.value.menuSections) :
                       FLe(entry.price, call.input.maxPrice)
           /\ ret.value.totalProducts
                 = ListedIn(ret.value.menuSections, Len(ret.value.menuSections))

(***************************************************************************)
(* C20                                                                     *)
(***************************************************************************)
\* a filter that is given: neither absent nor null
Given(v) == v # Undefined /\ v # Null

\* a string filter that is in force: every given one, or (emptyIsAbsent)
\* every given one but ''
InForce(v, emptyIsAbsent) == Given(v) /\ ~(emptyIsAbsent /\ v.str = "")

Matches(item, input, emptyIsAbsent) ==
    /\ InForce(input.tier, emptyIsAbsent) => item.tier = input.tier.str
    /\ InForce(input.category, emptyIsAbsent) => item.category = input.category.str
    /\ Given(input.minQuantity) => FGe(item.quantity, input.minQuantity)

\* the whole number a Number of the table is
WholeOf(x) == toFixed2(x).int

RECURSIVE ValueOf(_, _)
ValueOf(items, n) ==
    IF n = 0 THEN 0
    ELSE ValueOf(items, n - 1) + WholeOf(items[n].price) * WholeOf(items[n].quantity)

\* how many of the items have a quantity from lo to hi
HowMany(items, lo, hi) ==
    Cardinality({i \in 1..Len(items) : WholeOf(items[i].quantity) \in lo..hi})

SummaryOf(emptyIsAbsent) ==
    LET summary == ret.value.summary
        items   == ret.value.items
    IN  /\ summary.inStock + summary.outOfStock = summary.totalProducts
        /\ summary.lowStock <= summary.inStock
        /\ summary.totalProducts = Len(items)
        /\ summary.inStock = Len(items) - HowMany(items, 0, 0)
        /\ summary.outOfStock = HowMany(items, 0, 0)
        /\ summary.lowStock = HowMany(items, 1, 10)
        /\ items = SelectSeq(mockInventory,
                             LAMBDA item : Matches(item, call.input, emptyIsAbsent))
        /\ summary.totalValue = Fixed2("", ValueOf(items, Len(items)), 0)

\* C20 (as claimed): for every combination of the filters tier, category and
\* minQuantity, each absent, null or given, inStock + outOfStock =
\* totalProducts, lowStock <= inStock, the items returned are the rows of the
\* table that match every given filter, and totalValue is the sum of price *
\* quantity over them.
SummaryOfGivenFilters == AnalyzeReturned => SummaryOf(FALSE)

\* C20 (amended): the same, a tier or category given as the empty string
\* counting as absent; a null minQuantity admits every row.
SummaryOfFiltersInForce == AnalyzeReturned => SummaryOf(TRUE)

EmptyTierAnalyzed ==
    /\ AnalyzeReturned
    /\ call.input.tier = Str("")
    /\ call.input.category = Str("Flower")
    /\ call.input.minQuantity = Null
    /\ ret.value.summary = [totalProducts |-> 8, inStock |-> 7, lowStock |-> 2,
                            outOfStock |-> 1,
                            totalValue |-> Fixed2("", 24254, 0)]

====
